---- MODULE Spec2Model ----
(***************************************************************************)
(* A model of the opportunity pipeline of ai-deals2buy: the JSON memory    *)
(* store (core/memory.py), the orchestrator (core/framework.py), the two   *)
(* vector-store ingestion scripts (rag/vectorstore.py and                  *)
(* agents/rag_vectordb.py), the similarity retriever (rag/retriever.py),   *)
(* the ensemble estimator (agents/pricing/ensemble_agent.py) and the       *)
(* t-SNE projector (utils/visualization.py).                               *)
(*                                                                         *)
(* Conventions.  A Python object of a pydantic model is a tuple of its     *)
(* fields in declaration order; a dict / JSON object is a TLA+ record.     *)
(* Prices, estimates and discounts are whole numbers of currency units     *)
(* (json.dump / json.load round-trip finite floats exactly).  Every        *)
(* specification below owns a group of variables and leaves the others     *)
(* UNCHANGED.                                                              *)
(***************************************************************************)
EXTENDS Integers, Sequences, FiniteSets, TLC

VARIABLES
    file,         \* memory.json: [exists, data: the JSON objects in it, whole: the bytes
                  \* are one complete JSON document (FALSE: empty or cut short)]
    pending,      \* the open(filename, "w") block in progress, if any
    memory,       \* DealAgentFramework.memory, per orchestrator
    constructed,  \* which orchestrators have run __init__
    planner,      \* DealAgentFramework.planner, per orchestrator ("None" before first use)
    built,        \* history: the planners each orchestrator has constructed, in order
    handle,       \* DealAgentFramework.collection, per orchestrator (<<>> before __init__)
    mode,         \* the PLANNER_MODE environment variable
    lastWritten,  \* history: the sequence handed to the latest MemoryStore.write
    last,         \* history: the latest operation, its arguments, pre-state and result
    collection,   \* the Chroma collection "products": its records in insertion order
    present,      \* whether the collection "products" exists in the store
    countFails,   \* environment: collection.count() raises
    getFails,     \* environment: collection.get(limit=1) raises
    addMode,      \* environment: what collection.add does with an id already stored
    ingests,      \* number of ingestions run so far
    forced,       \* history: some ingestion so far ran with force_recreate
    ingestLast,   \* history: the latest ingestion, its arguments, pre-state and result
    plotLast,     \* history: the latest compute_tsne_plot_data call and its result
    queryLast,    \* history: the latest query_similars call, the index's answer, the result
    specialistOf, \* environment: SpecialistAgent.price as a function of the text
    frontierOf,   \* environment: FrontierAgent.price as a function of the text
    priceLast     \* history: the latest EnsembleAgent.price call and its result

memVars == <<file, pending, memory, constructed, planner, built, handle, mode, lastWritten, last>>

ingVars == <<collection, present, countFails, getFails, addMode, ingests, forced, ingestLast>>

auxVars == <<plotLast, queryLast, specialistOf, frontierOf, priceLast>>

vars == <<memVars, ingVars, auxVars>>

\* ------------------------------------------------------------------ bounds

\* Longest opportunity sequence explored.
MaxMem == 3

\* Longest sequence an orchestrator's cycles grow its memory to.
MaxRunMem == 4

\* ------------------------------------------------------------ small helpers

Min(a, b) == IF a <= b THEN a ELSE b

Max(a, b) == IF a >= b THEN a ELSE b

SeqsUpTo(S, n) == UNION {[1..k -> S] : k \in 0..n}

\* Python's data[:n]: the first n entries for n >= 0, all but the last -n for n < 0.
PySliceTo(data, n) ==
    IF n >= 0 THEN SubSeq(data, 1, Min(n, Len(data)))
    ELSE SubSeq(data, 1, Max(Len(data) + n, 0))

\* -------------------------------------------------------------- data model

\* Deal(product_description, price, url)
Deals == {<<"x", 10, "u">>, <<"y", 20, "v">>}

Estimates == {42}

\* The discount is a field of its own: the constructor takes whatever it is given.
Discounts == {32, 22}

\* Opportunity(deal, estimate, discount)
Opportunities == Deals \X Estimates \X Discounts

\* BaseModel.model_dump(): the object as a nested dict.
ModelDump(opp) ==
    [deal |-> [product_description |-> opp[1][1], price |-> opp[1][2], url |-> opp[1][3]],
     estimate |-> opp[2],
     discount |-> opp[3]]

\* Whether Opportunity(**item) validates: every required key is there.
ValidItem(item) ==
    /\ {"deal", "estimate", "discount"} \subseteq DOMAIN item
    /\ {"product_description", "price", "url"} \subseteq DOMAIN item.deal

\* Opportunity(**item): the object built from a dict, its keys looked up by name.
OpportunityFromDict(item) ==
    <<<<item.deal.product_description, item.deal.price, item.deal.url>>,
      item.estimate, item.discount>>

\* ------------------------------------------------------------- MemoryStore

NoFile == [exists |-> FALSE, data |-> <<>>, whole |-> TRUE]

\* A read that opens the file without testing os.path.exists: absent means an error.
ReadFile_OpensUnchecked(f) ==
    IF ~f.exists THEN [ok |-> FALSE, val |-> <<>>]
    ELSE IF f.whole /\ \A i \in 1..Len(f.data) : ValidItem(f.data[i])
         THEN [ok |-> TRUE, val |-> [i \in 1..Len(f.data) |-> OpportunityFromDict(f.data[i])]]
         ELSE [ok |-> FALSE, val |-> <<>>]

\* MemoryStore.read: [] for an absent file, else every record as an Opportunity;
\* a file that is not a whole JSON document, or one malformed record, fails the read.
ReadFile(f) ==
    IF ~f.exists THEN [ok |-> TRUE, val |-> <<>>]
    ELSE IF f.whole /\ \A i \in 1..Len(f.data) : ValidItem(f.data[i])
         THEN [ok |-> TRUE, val |-> [i \in 1..Len(f.data) |-> OpportunityFromDict(f.data[i])]]
         ELSE [ok |-> FALSE, val |-> <<>>]

\* A write that opens the file for appending: the dump lands after the old content.
WriteFile_Append(f, opportunities) ==
    [exists |-> TRUE, whole |-> TRUE,
     data |-> f.data \o [i \in 1..Len(opportunities) |-> ModelDump(opportunities[i])]]

\* MemoryStore.write: open(filename, "w") empties the file f, and the dump of exactly
\* the sequence passed in becomes its content.
WriteFile(f, opportunities) ==
    [exists |-> TRUE, whole |-> TRUE,
     data |-> [i \in 1..Len(opportunities) |-> ModelDump(opportunities[i])]]

\* A truncation that is off by one: data[:n + 1].
ResetKeepFirstFile_OffByOne(f, n) ==
    LET data == IF f.exists THEN f.data ELSE <<>>
    IN  [exists |-> TRUE, whole |-> TRUE, data |-> PySliceTo(data, n + 1)]

\* MemoryStore.reset_keep_first: load the raw JSON (empty when absent), keep data[:n];
\* json.load raises on a file that is not a whole document, before anything is written.
ResetKeepFirstFile(f, n) ==
    LET data == IF f.exists THEN f.data ELSE <<>>
    IN  IF f.exists /\ ~f.whole THEN f
        ELSE [exists |-> TRUE, whole |-> TRUE, data |-> PySliceTo(data, n)]

\* The files the program itself leaves behind: none, or a dump of some sequence.
Files == {NoFile} \cup {WriteFile(NoFile, s) : s \in SeqsUpTo(Opportunities, MaxMem)}

\* json.dump(data, file): the dump of one sequence, as the list of objects to emit.
DumpOf(opportunities) == [i \in 1..Len(opportunities) |-> ModelDump(opportunities[i])]

\* No open(filename, "w") block is running.
NoPending == [active |-> FALSE, data |-> <<>>, before |-> NoFile]

\* ------------------------------------------------------------ orchestrator

Orchestrators == {"A", "B"}

\* Values of the PLANNER_MODE environment variable ("<unset>": not in os.environ).
Modes == {"<unset>", "workflow", " PLAN ", "autonomous", "fast"}

\* os.environ.get("PLANNER_MODE", "autonomous").strip().lower()
NormalizedMode(m) ==
    CASE m = "<unset>" -> "autonomous"
      [] m = " PLAN " -> "plan"
      [] OTHER -> m

\* init_agents_as_needed: the planner class chosen when none is held yet.
SelectPlanner(m) ==
    IF NormalizedMode(m) \in {"workflow", "planning", "planning_agent", "plan"}
    THEN "PlanningAgent"
    ELSE "AutonomousPlanningAgent"

\* reset_memory keeps this many entries.
KeepFirst == 2

\* What planner.plan(memory) may hand back: None (<<>>) or one Opportunity (<<opp>>).
\* The planner is an external collaborator; any Opportunity the model class accepts
\* can come back.
PlanResults == {<<>>} \cup {<<opp>> : opp \in Opportunities}

NoWrite == [some |-> FALSE, val |-> <<>>]

\* A cycle that persists before it appends: the file misses the new opportunity.
RunStep_WriteBeforeAppend(mem, f, result) ==
    IF result # <<>>
    THEN LET updated == Append(mem, result[1])
         IN  [memory |-> updated, file |-> WriteFile(f, mem),
              written |-> [some |-> TRUE, val |-> mem], ret |-> updated]
    ELSE [memory |-> mem, file |-> f, written |-> NoWrite, ret |-> mem]

\* A cycle that persists the new opportunity alone instead of the whole list.
RunStep_WritesOnlyNew(mem, f, result) ==
    IF result # <<>>
    THEN LET updated == Append(mem, result[1])
         IN  [memory |-> updated, file |-> WriteFile(f, result),
              written |-> [some |-> TRUE, val |-> result], ret |-> updated]
    ELSE [memory |-> mem, file |-> f, written |-> NoWrite, ret |-> mem]

\* A cycle that loads the file again and appends to what it finds there.
RunStep_ReloadsFile(mem, f, result) ==
    IF result # <<>>
    THEN LET updated == Append(ReadFile(f).val, result[1])
         IN  [memory |-> updated, file |-> WriteFile(f, updated),
              written |-> [some |-> TRUE, val |-> updated], ret |-> updated]
    ELSE [memory |-> ReadFile(f).val, file |-> f, written |-> NoWrite,
          ret |-> ReadFile(f).val]

\* A cycle that returns the list as it was before the append.
RunStep_ReturnsOld(mem, f, result) ==
    IF result # <<>>
    THEN LET updated == Append(mem, result[1])
         IN  [memory |-> updated, file |-> WriteFile(f, updated),
              written |-> [some |-> TRUE, val |-> updated], ret |-> mem]
    ELSE [memory |-> mem, file |-> f, written |-> NoWrite, ret |-> mem]

\* The body of run() after the planner answered: `if result:` appends to the list
\* and rewrites the file from the updated list; the list is returned either way.
RunStep(mem, f, result) ==
    IF result # <<>>
    THEN LET updated == Append(mem, result[1])
         IN  [memory |-> updated, file |-> WriteFile(f, updated),
              written |-> [some |-> TRUE, val |-> updated], ret |-> updated]
    ELSE [memory |-> mem, file |-> f, written |-> NoWrite, ret |-> mem]

\* client.get_or_create_collection("products") in __init__: the handle object the
\* orchestrator o holds from then on.
GetOrCreateCollection(o) == <<"products", o>>

\* An initialisation without the `if not self.planner` test: a planner per call.
InitAgentsStep_NoGuard(p, h, m) ==
    [planner |-> SelectPlanner(m),
     constructs |-> <<[class |-> SelectPlanner(m), collection |-> h, mode |-> m]>>]

\* init_agents_as_needed with planner p, collection h and PLANNER_MODE m: the planner
\* held afterwards and the constructor calls made (class, argument, mode read).
InitAgentsStep(p, h, m) ==
    IF p = "None"
    THEN [planner |-> SelectPlanner(m),
          constructs |-> <<[class |-> SelectPlanner(m), collection |-> h, mode |-> m]>>]
    ELSE [planner |-> p, constructs |-> <<>>]

\* DealAgentFramework.__init__: the memory is loaded from the file, no planner yet.
Construct(o) ==
    /\ ~constructed[o]
    /\ ReadFile(file).ok
    /\ constructed' = [constructed EXCEPT ![o] = TRUE]
    /\ memory' = [memory EXCEPT ![o] = ReadFile(file).val]
    /\ handle' = [handle EXCEPT ![o] = GetOrCreateCollection(o)]
    /\ planner' = [planner EXCEPT ![o] = "None"]
    /\ present' = TRUE
    /\ last' = [op |-> "init", o |-> o, before |-> file]
    /\ UNCHANGED pending
    /\ UNCHANGED <<file, built, mode, lastWritten, auxVars>>
    /\ UNCHANGED <<collection, countFails, getFails, addMode, ingests, forced, ingestLast>>

\* DealAgentFramework.init_agents_as_needed called on its own.
InitAgentsAsNeeded(o) ==
    /\ constructed[o]
    /\ LET init == InitAgentsStep(planner[o], handle[o], mode)
       IN  /\ planner' = [planner EXCEPT ![o] = init.planner]
           /\ built' = [built EXCEPT ![o] = @ \o init.constructs]
    /\ last' = [op |-> "init_agents", o |-> o]
    /\ UNCHANGED pending
    /\ UNCHANGED <<file, memory, constructed, handle, mode, lastWritten, ingVars, auxVars>>

\* The environment sets (or unsets) PLANNER_MODE between two calls.
SetMode(m) ==
    /\ m # mode
    /\ mode' = m
    /\ last' = [op |-> "setenv", m |-> m]
    /\ UNCHANGED pending
    /\ UNCHANGED <<file, memory, constructed, planner, built, handle, lastWritten>>
    /\ UNCHANGED <<ingVars, auxVars>>

\* DealAgentFramework.run: one cycle, the planner built on first use.
Run(o, result) ==
    /\ constructed[o]
    /\ result = <<>> \/ Len(memory[o]) < MaxRunMem
    /\ LET step == RunStep(memory[o], file, result)
           init == InitAgentsStep(planner[o], handle[o], mode)
       IN  /\ planner' = [planner EXCEPT ![o] = init.planner]
           /\ built' = [built EXCEPT ![o] = @ \o init.constructs]
           /\ memory' = [memory EXCEPT ![o] = step.memory]
           /\ file' = step.file
           /\ lastWritten' = IF step.written.some THEN step.written ELSE lastWritten
           /\ last' = [op |-> "run", o |-> o, result |-> result, memBefore |-> memory[o],
                       before |-> file, ret |-> step.ret]
    /\ UNCHANGED pending
    /\ UNCHANGED <<constructed, handle, mode, ingVars, auxVars>>

\* Where a cycle can fail: planner.plan raises, open(filename, "w") raises, or
\* json.dump raises after the file was opened.
Faults == {"plan", "open", "dump"}

\* run() when one of its calls raises.  The exception leaves run() at once, so what
\* was done before the failing call stays done: nothing for a failing plan; the
\* append for a failing write, plus the file cut to its first k dumped objects when
\* the failure comes after the open.
RunStepFailing(mem, f, result, fault, k) ==
    IF fault = "plan" THEN [memory |-> mem, file |-> f]
    ELSE LET updated == Append(mem, result[1])
         IN  IF fault = "open" THEN [memory |-> updated, file |-> f]
             ELSE [memory |-> updated,
                   file |-> [exists |-> TRUE, whole |-> FALSE,
                             data |-> SubSeq(DumpOf(updated), 1, k)]]

\* DealAgentFramework.run ending in an exception.
RunFails(o, result, fault, k) ==
    /\ constructed[o]
    /\ fault = "plan" => (result = <<>> /\ k = 0)
    /\ fault # "plan" => (result # <<>> /\ Len(memory[o]) < MaxMem)
    /\ fault = "open" => k = 0
    /\ fault = "dump" => k <= Len(memory[o])
    /\ LET step == RunStepFailing(memory[o], file, result, fault, k)
           init == InitAgentsStep(planner[o], handle[o], mode)
       IN  /\ planner' = [planner EXCEPT ![o] = init.planner]
           /\ built' = [built EXCEPT ![o] = @ \o init.constructs]
           /\ memory' = [memory EXCEPT ![o] = step.memory]
           /\ file' = step.file
    /\ last' = [op |-> "run_failed", o |-> o, fault |-> fault, memBefore |-> memory[o],
                before |-> file]
    /\ UNCHANGED <<pending, constructed, handle, mode, lastWritten, ingVars, auxVars>>

\* DealAgentFramework.reset_memory (classmethod): works on the file alone.
ResetMemory ==
    /\ file' = ResetKeepFirstFile(file, KeepFirst)
    /\ lastWritten' = NoWrite
    /\ last' = [op |-> "reset_keep_first", n |-> KeepFirst, before |-> file,
                mem |-> memory]
    /\ UNCHANGED pending
    /\ UNCHANGED <<memory, constructed, planner, built, handle, mode, ingVars, auxVars>>

\* ------------------------------------------------- MemoryStore used directly

\* Largest n handed to reset_keep_first (one past the longest file).
MaxKeep == 4

StoreWrite(s) ==
    /\ file' = WriteFile(file, s)
    /\ lastWritten' = [some |-> TRUE, val |-> s]
    /\ last' = [op |-> "write", arg |-> s]
    /\ UNCHANGED pending
    /\ UNCHANGED <<memory, constructed, planner, built, handle, mode, ingVars, auxVars>>

StoreRead ==
    /\ last' = [op |-> "read", before |-> file, ok |-> ReadFile(file).ok,
                ret |-> ReadFile(file).val]
    /\ UNCHANGED pending
    /\ UNCHANGED <<file, memory, constructed, planner, built, handle, mode, lastWritten>>
    /\ UNCHANGED <<ingVars, auxVars>>

StoreReset(n) ==
    /\ file' = ResetKeepFirstFile(file, n)
    /\ lastWritten' = NoWrite
    /\ last' = [op |-> "reset_keep_first", n |-> n, before |-> file]
    /\ UNCHANGED pending
    /\ UNCHANGED <<memory, constructed, planner, built, handle, mode, ingVars, auxVars>>

\* ------------------------------------------ MemoryStore, one file operation at a time

\* `with open(self.filename, "w") as file:` of write(s): the file is created or cut to
\* zero bytes before a single byte of the dump exists.
OpenForWrite(s) ==
    /\ ~pending.active
    /\ pending' = [active |-> TRUE, data |-> DumpOf(s), before |-> file]
    /\ file' = [exists |-> TRUE, data |-> <<>>, whole |-> FALSE]
    /\ last' = [op |-> "open", by |-> "write"]
    /\ UNCHANGED <<memory, constructed, planner, built, handle, mode, lastWritten>>
    /\ UNCHANGED <<ingVars, auxVars>>

\* reset_keep_first(n) up to its open(filename, "w"): the old content is loaded (this
\* raises on a file that is not a whole document), sliced, and the file cut to zero.
OpenForReset(n) ==
    /\ ~pending.active
    /\ ~file.exists \/ file.whole
    /\ pending' = [active |-> TRUE, data |-> PySliceTo(file.data, n), before |-> file]
    /\ file' = [exists |-> TRUE, data |-> <<>>, whole |-> FALSE]
    /\ last' = [op |-> "open", by |-> "reset_keep_first"]
    /\ UNCHANGED <<memory, constructed, planner, built, handle, mode, lastWritten>>
    /\ UNCHANGED <<ingVars, auxVars>>

\* json.dump emits the document piece by piece; a buffer flush puts one more object
\* of it into the file, the closing bracket still missing.
FlushChunk ==
    /\ pending.active
    /\ Len(file.data) < Len(pending.data)
    /\ file' = [exists |-> TRUE, data |-> SubSeq(pending.data, 1, Len(file.data) + 1),
                whole |-> FALSE]
    /\ last' = [op |-> "flush"]
    /\ UNCHANGED <<pending, memory, constructed, planner, built, handle, mode, lastWritten>>
    /\ UNCHANGED <<ingVars, auxVars>>

\* The dump ends and the with-block closes the file: the whole document is in it.
CloseFile ==
    /\ pending.active
    /\ file' = [exists |-> TRUE, data |-> pending.data, whole |-> TRUE]
    /\ pending' = [pending EXCEPT !.active = FALSE]
    /\ last' = [op |-> "close"]
    /\ UNCHANGED <<memory, constructed, planner, built, handle, mode, lastWritten>>
    /\ UNCHANGED <<ingVars, auxVars>>

\* The process dies (or json.dump raises) inside the with-block: the file keeps the
\* bytes that reached it.
Crash ==
    /\ pending.active
    /\ pending' = [pending EXCEPT !.active = FALSE]
    /\ last' = [op |-> "crash"]
    /\ UNCHANGED <<file, memory, constructed, planner, built, handle, mode, lastWritten>>
    /\ UNCHANGED <<ingVars, auxVars>>

\* ---------------------------------------------------------- specifications

InitMem ==
    /\ file \in Files
    /\ memory = [o \in Orchestrators |-> <<>>]
    /\ constructed = [o \in Orchestrators |-> FALSE]
    /\ planner = [o \in Orchestrators |-> "None"]
    /\ built = [o \in Orchestrators |-> <<>>]
    /\ handle = [o \in Orchestrators |-> <<>>]
    /\ lastWritten = NoWrite
    /\ last = [op |-> "none"]
    /\ pending = NoPending

\* The vector store before anything touched it.
IdleIng ==
    /\ collection = <<>>
    /\ present = FALSE
    /\ countFails = FALSE
    /\ getFails = FALSE
    /\ addMode = "reject"
    /\ ingests = 0
    /\ forced = FALSE
    /\ ingestLast = [op |-> "none"]

\* No plot, query or price asked for.
IdleAux ==
    /\ plotLast = [op |-> "none"]
    /\ queryLast = [op |-> "none"]
    /\ specialistOf = <<>>
    /\ frontierOf = <<>>
    /\ priceLast = [op |-> "none"]

\* The memory file absent and no orchestrator alive.
IdleMem ==
    /\ InitMem
    /\ file = NoFile
    /\ mode = "<unset>"

\* The memory store on its own, driven with every argument.
InitStore ==
    /\ InitMem
    /\ mode = "<unset>"
    /\ IdleIng
    /\ IdleAux

NextStore ==
    \/ \E s \in SeqsUpTo(Opportunities, MaxMem) : StoreWrite(s)
    \/ StoreRead
    \/ \E n \in 0..MaxKeep : StoreReset(n)

SpecStore == InitStore /\ [][NextStore]_vars

\* One process as main.py runs it: reset_memory, then one orchestrator and its cycles.
Init ==
    /\ InitMem
    /\ mode \in Modes
    /\ IdleIng
    /\ IdleAux

Next ==
    \/ (~constructed["A"] /\ last.op = "none" /\ ResetMemory)
    \/ Construct("A")
    \/ \E r \in PlanResults : Run("A", r)

Spec == Init /\ [][Next]_vars

\* The sequences written when the file operations are followed step by step.
StepSeqs == SeqsUpTo({<<<<"x", 10, "u">>, 42, 32>>, <<<<"y", 20, "v">>, 42, 22>>}, MaxMem)

\* write and reset_keep_first followed through open, dump and close, with crashes.
InitSteps ==
    /\ InitMem
    /\ file \in {NoFile} \cup {WriteFile(NoFile, s) : s \in StepSeqs}
    /\ mode = "<unset>"
    /\ IdleIng
    /\ IdleAux

NextSteps ==
    \/ \E s \in StepSeqs : OpenForWrite(s)
    \/ \E n \in 0..MaxKeep : OpenForReset(n)
    \/ FlushChunk
    \/ CloseFile
    \/ Crash

SpecSteps == InitSteps /\ [][NextSteps]_vars

\* What the planners hand back when two orchestrators share the memory file.
TwoResults == {<<>>, <<<<<<"x", 10, "u">>, 42, 32>>>>, <<<<<<"y", 20, "v">>, 42, 22>>>>}

\* Two orchestrators (two processes, or two objects of one process) on one memory.json,
\* each constructed at some point and running cycles in any order.
InitTwo ==
    /\ InitMem
    /\ file = NoFile
    /\ mode = "<unset>"
    /\ IdleIng
    /\ IdleAux

NextTwo ==
    \/ \E o \in Orchestrators : Construct(o)
    \/ \E o \in Orchestrators, r \in TwoResults : Run(o, r)

SpecTwo == InitTwo /\ [][NextTwo]_vars

\* One orchestrator whose cycles may fail in the planner or in the write.
InitFail ==
    /\ InitMem
    /\ file \in {NoFile} \cup {WriteFile(NoFile, s) : s \in StepSeqs}
    /\ mode = "<unset>"
    /\ IdleIng
    /\ IdleAux

NextFail ==
    \/ Construct("A")
    \/ \E r \in TwoResults : Run("A", r)
    \/ \E r \in TwoResults, fault \in Faults, k \in 0..MaxMem : RunFails("A", r, fault, k)

SpecFail == InitFail /\ [][NextFail]_vars

\* One orchestrator and reset_memory() called at any time, also while it is alive.
InitReset ==
    /\ InitMem
    /\ mode = "<unset>"
    /\ IdleIng
    /\ IdleAux

NextReset ==
    \/ Construct("A")
    \/ ResetMemory
    \/ \E r \in TwoResults : Run("A", r)

SpecReset == InitReset /\ [][NextReset]_vars

\* One orchestrator used through both entry points while PLANNER_MODE changes.
InitOrch ==
    /\ InitMem
    /\ file = NoFile
    /\ mode \in Modes
    /\ IdleIng
    /\ IdleAux

NextOrch ==
    \/ Construct("A")
    \/ InitAgentsAsNeeded("A")
    \/ \E r \in PlanResults : Run("A", r)
    \/ \E m \in Modes : SetMode(m)

SpecOrch == InitOrch /\ [][NextOrch]_vars

\* ------------------------------------------------------ claims: the memory

\* Opportunity.discount is estimate minus deal.price.
Consistent(opp) == opp[3] = opp[2] - opp[1][2]

ConsistentItem(item) == item.discount = item.estimate - item.deal.price

\* C1: reset_keep_first(n) on a file holding L entries (absent: L = 0) ends without
\* error and leaves the file holding exactly the first min(n, L) entries, in order,
\* for every n >= 0.
C1_ResetKeepsPrefix ==
    last.op = "reset_keep_first" =>
        LET L == IF last.before.exists THEN Len(last.before.data) ELSE 0
            k == IF last.n <= L THEN last.n ELSE L
        IN  /\ file.exists
            /\ Len(file.data) = k
            /\ \A i \in 1..k : file.data[i] = last.before.data[i]

\* C1 witness: a reset asked to keep more entries than the file held.
C1_Witness ==
    /\ last.op = "reset_keep_first"
    /\ last.before.exists
    /\ Len(last.before.data) >= 1
    /\ last.n > Len(last.before.data)
    /\ Len(file.data) = Len(last.before.data)

\* C2: write(s) followed by read() returns s, element by element and field by field,
\* whatever the file held before the write.
C2_WriteReadRoundTrip ==
    (last.op = "read" /\ lastWritten.some) =>
        /\ last.ok
        /\ Len(last.ret) = Len(lastWritten.val)
        /\ \A i \in 1..Len(last.ret) :
            /\ last.ret[i][1][1] = lastWritten.val[i][1][1]
            /\ last.ret[i][1][2] = lastWritten.val[i][1][2]
            /\ last.ret[i][1][3] = lastWritten.val[i][1][3]
            /\ last.ret[i][2] = lastWritten.val[i][2]
            /\ last.ret[i][3] = lastWritten.val[i][3]

\* C2 witness: a read right after a write of two different opportunities.
C2_Witness ==
    /\ last.op = "read"
    /\ lastWritten.some
    /\ Len(lastWritten.val) >= 2
    /\ lastWritten.val[1] # lastWritten.val[2]
    /\ Len(last.ret) >= 2

\* C3: with one orchestrator, the memory file, when it exists, is a valid
\* serialization of exactly the orchestrator's sequence as of the last write (which
\* is also its current sequence, since the sequence only changes in a persisted cycle).
C3_FileMatchesMemory ==
    file.exists =>
        /\ ReadFile(file).ok
        /\ lastWritten.some => ReadFile(file).val = lastWritten.val
        /\ constructed["A"] => ReadFile(file).val = memory["A"]

\* C3 witness: the orchestrator has persisted a cycle and holds two opportunities.
C3_Witness ==
    /\ constructed["A"]
    /\ file.exists
    /\ lastWritten.some
    /\ Len(memory["A"]) >= 2
    /\ last.op = "run"

\* C4: one run() cycle with memory m: a planner result r leaves memory m followed by
\* r, the file written with that sequence, and that sequence returned; no result
\* leaves memory and file as they were and returns m.
C4_RunAppendsAndPersists ==
    last.op = "run" =>
        IF last.result # <<>>
        THEN /\ memory[last.o] = last.memBefore \o last.result
             /\ file.exists
             /\ ReadFile(file).ok
             /\ ReadFile(file).val = memory[last.o]
             /\ last.ret = memory[last.o]
        ELSE /\ memory[last.o] = last.memBefore
             /\ file = last.before
             /\ last.ret = last.memBefore

\* C4 witness: a cycle whose planner returned an opportunity to a non-empty memory.
C4_Witness ==
    /\ last.op = "run"
    /\ last.result # <<>>
    /\ Len(last.memBefore) >= 1
    /\ Len(memory[last.o]) = Len(last.memBefore) + 1

\* C10: every Opportunity that run() appends to the memory and writes to the file
\* satisfies discount = estimate - deal.price (an inconsistent one is rejected or
\* corrected, not stored).
C10_StoredDiscountConsistent ==
    last.op = "run" =>
        /\ \A i \in (Len(last.memBefore) + 1)..Len(memory[last.o]) :
            Consistent(memory[last.o][i])
        /\ \A i \in (Len(last.memBefore) + 1)..Len(file.data) :
            ConsistentItem(file.data[i])

\* C11: read() on a path where no file exists returns an empty sequence, raises no
\* error and does not create the file.
C11_ReadOfAbsentFile ==
    (last.op = "read" /\ ~last.before.exists) =>
        /\ last.ok
        /\ Len(last.ret) = 0
        /\ ~file.exists

\* C11 witness: a read was made while the file was absent.
C11_Witness ==
    /\ last.op = "read"
    /\ ~last.before.exists
    /\ last.ok
    /\ file = NoFile

\* C15: write and reset_keep_first are crash-safe and atomic: at every point of the
\* operation, a crash inside it included, a reader of the memory file finds either
\* the complete previous sequence or the complete new one, never an empty, cut or
\* partial document.
C15_ReaderSeesOldOrNew ==
    /\ file.exists => file.whole
    /\ ReadFile(file).ok
    /\ last.op \in {"open", "flush", "close", "crash"} =>
        \/ file.data = pending.data
        \/ file.data = pending.before.data

\* The orchestrators that have run a cycle.
Writers == {o \in Orchestrators : planner[o] # "None"}

\* Every entry of the file f is still in the file g, at its place.
KeptIn(f, g) ==
    /\ Len(f.data) <= Len(g.data)
    /\ \A i \in 1..Len(f.data) : g.data[i] = f.data[i]

\* C16: rewriting the whole file is enough under a single writer: while one
\* orchestrator alone runs cycles, every opportunity in the file before a cycle is
\* still in it after the cycle.  (Two writers can lose one: see the witness.)
C16_SingleWriterKeepsAll ==
    (last.op = "run" /\ Cardinality(Writers) = 1) => KeptIn(last.before, file)

\* C16 witness: with two orchestrators on the same file, a cycle of one has just
\* removed from the file an opportunity the other had persisted.
C16_Witness ==
    /\ last.op = "run"
    /\ Cardinality(Writers) = 2
    /\ last.result # <<>>
    /\ \E i \in 1..Len(last.before.data) :
        \A j \in 1..Len(file.data) : file.data[j] # last.before.data[i]
    /\ \E p \in Orchestrators :
        /\ p # last.o
        /\ \E i \in 1..Len(memory[p]) :
            /\ \E k \in 1..Len(last.before.data) : last.before.data[k] = ModelDump(memory[p][i])
            /\ \A j \in 1..Len(file.data) : file.data[j] # ModelDump(memory[p][i])

\* C19: a cycle whose planner or whose memory write fails persists nothing partial:
\* afterwards the memory file is still a valid serialization of the sequence the
\* orchestrator held before the cycle, and the orchestrator's sequence equals what is
\* on disk.
C19_FailedCycleLeavesNoTrace ==
    last.op = "run_failed" =>
        /\ ReadFile(file).ok
        /\ ReadFile(file).val = last.memBefore
        /\ memory[last.o] = ReadFile(file).val

\* C21: an orchestrator loads its sequence from the file at construction only, and
\* reset_memory() changes the file alone, never the sequence of a live orchestrator;
\* so a cycle that appends after a reset writes the orchestrator's whole untruncated
\* sequence plus the new opportunity, bringing back the entries the reset removed.
C21_ResetLeavesLiveMemory ==
    /\ last.op = "init" => memory[last.o] = ReadFile(last.before).val
    /\ last.op = "reset_keep_first" =>
        /\ memory = last.mem
        /\ file.data = SubSeq(last.before.data, 1, Min(KeepFirst, Len(last.before.data)))
    /\ (last.op = "run" /\ last.result = <<>>) =>
        (memory[last.o] = last.memBefore /\ file = last.before)
    /\ (last.op = "run" /\ last.result # <<>>) =>
        /\ memory[last.o] = last.memBefore \o last.result
        /\ Len(file.data) = Len(last.memBefore) + 1
        /\ \A i \in 1..Len(last.memBefore) : file.data[i] = ModelDump(last.memBefore[i])
        /\ file.data[Len(file.data)] = ModelDump(last.result[1])

\* C21 witness: the file had been cut to 2 entries under an orchestrator holding 3,
\* and its next appending cycle has written all 4 back.
C21_Witness ==
    /\ last.op = "run"
    /\ last.result # <<>>
    /\ Len(last.memBefore) = 3
    /\ Len(last.before.data) = KeepFirst
    /\ Len(file.data) = 4
    /\ file.data[3] = ModelDump(last.memBefore[3])

\* C12: over any number of init_agents_as_needed() and run() calls on one
\* orchestrator exactly one planner is ever constructed, on first use: PlanningAgent
\* when PLANNER_MODE read at that call is a workflow-mode string, and
\* AutonomousPlanningAgent when it is unset or unrecognized; the other class is never
\* constructed, and the planner is given the orchestrator's own collection handle.
C12_OnePlannerOnFirstUse ==
    \A o \in Orchestrators :
        /\ Len(built[o]) <= 1
        /\ (last.op = "init" /\ last.o = o) => built[o] = <<>>
        /\ (last.op \in {"run", "init_agents"} /\ last.o = o) => Len(built[o]) = 1
        /\ (built[o] = <<>>) <=> (planner[o] = "None")
        /\ \A i \in 1..Len(built[o]) :
            /\ planner[o] = built[o][i].class
            /\ built[o][i].mode \in {"workflow", " PLAN "}
                   => built[o][i].class = "PlanningAgent"
            /\ built[o][i].mode \in {"<unset>", "autonomous", "fast"}
                   => built[o][i].class = "AutonomousPlanningAgent"
            /\ built[o][i].collection = handle[o]
            /\ handle[o] # <<>>

\* C12 witness: a cycle ran under a PLANNER_MODE that selects the other class than
\* the planner built on first use, and that planner is still the only one.
C12_Witness ==
    /\ last.op = "run"
    /\ Len(built["A"]) = 1
    /\ built["A"][1].class = "PlanningAgent"
    /\ SelectPlanner(mode) = "AutonomousPlanningAgent"
    /\ planner["A"] = "PlanningAgent"

\* ---------------------------------------------------- vector store: ingestion

\* Ingestions per behaviour.
MaxIngests == 3

\* Item(title, category, price, full, weight, summary, prompt, id); an Optional field
\* is <<>> (None) or <<value>>.
ItemTitle(item) == item[1]

ItemCategory(item) == item[2]

ItemPrice(item) == item[3]

ItemFull(item) == item[4]

ItemSummary(item) == item[6]

ItemId(item) == item[8]

\* The two ingestion scripts.
Variants == {"rag", "agents"}

DatasetNames == {"lite", "full"}

\* Item.from_hub(dataset)[0]: the train partition.  "lite" items carry no id, "full"
\* items carry one; the second item of each has a blank summary.
TrainOf(dataset) ==
    IF dataset = "lite"
    THEN << <<"Kettle", "Appliances", 30, <<"f1">>, <<>>, <<"s1">>, <<>>, <<>>>>,
            <<"Drill", "Tools_and_Home_Improvement", 80, <<"f2">>, <<>>, <<"  ">>, <<>>, <<>>>>,
            <<"Phone", "Electronics", 200, <<"f3">>, <<>>, <<"s3">>, <<>>, <<>>>> >>
    ELSE << <<"Amp", "Musical_Instruments", 150, <<"f4">>, <<>>, <<"s4">>, <<>>, <<1>>>>,
            <<"Desk", "Office_Products", 120, <<"f5">>, <<>>, <<"  ">>, <<>>, <<2>>>>,
            <<"Robot", "Toys_and_Games", 40, <<"f6">>, <<>>, <<"s6">>, <<>>, <<3>>>> >>

\* not text.strip()
IsBlank(text) == text \in {"", " ", "  "}

\* f"{item.title} ({item.category})"
SynthDocument(item) ==
    CASE ItemTitle(item) = "Kettle" -> "Kettle (Appliances)"
      [] ItemTitle(item) = "Drill" -> "Drill (Tools_and_Home_Improvement)"
      [] ItemTitle(item) = "Phone" -> "Phone (Electronics)"
      [] ItemTitle(item) = "Amp" -> "Amp (Musical_Instruments)"
      [] ItemTitle(item) = "Desk" -> "Desk (Office_Products)"
      [] ItemTitle(item) = "Robot" -> "Robot (Toys_and_Games)"
      [] OTHER -> "? (?)"

\* agents/rag_vectordb.py _item_document: summary, else full, else title and category.
ItemDocument(item) ==
    IF ItemSummary(item) # <<>> /\ ~IsBlank(ItemSummary(item)[1]) THEN ItemSummary(item)
    ELSE IF ItemFull(item) # <<>> /\ ~IsBlank(ItemFull(item)[1]) THEN ItemFull(item)
    ELSE <<SynthDocument(item)>>

\* The text each script embeds and stores for an item (Optional: item.summary may be
\* None in rag/vectorstore.py).
DocumentOf(variant, item) ==
    IF variant = "rag" THEN ItemSummary(item) ELSE ItemDocument(item)

\* encoder.encode: one deterministic vector per text (a number stands for the vector).
Embed(text) ==
    CASE text = "s1" -> 11 [] text = "s3" -> 13 [] text = "s4" -> 24 [] text = "s6" -> 26
      [] text = "f1" -> 31 [] text = "f2" -> 32 [] text = "f3" -> 33
      [] text = "f4" -> 44 [] text = "f5" -> 45 [] text = "f6" -> 46
      [] text = "  " -> 5
      [] text = "a kettle" -> 12 [] text = "an amplifier" -> 25
      [] OTHER -> 0

\* f"doc_{k}"
DocId(k) == <<"doc", k>>

\* f"{_repo_root().name}_doc_{k}"
RepoDocId(k) == <<"ai-deals2buy_doc", k>>

\* One record of the collection.
Record(id, document, item) ==
    [id |-> id, document |-> document, embedding |-> Embed(document),
     metadata |-> [category |-> ItemCategory(item), price |-> ItemPrice(item)]]

IdsOf(coll) == {coll[i].id : i \in 1..Len(coll)}

\* collection.add: a batch that repeats an id is rejected; an id already stored is
\* rejected ("reject") or silently skipped ("ignore"), depending on the Chroma version.
\* Nothing stored is ever overwritten.
StoreAdd(coll, recs, am) ==
    LET repeats == \E j, k \in 1..Len(recs) : j # k /\ recs[j].id = recs[k].id
        clash == \E j \in 1..Len(recs) : recs[j].id \in IdsOf(coll)
        IsNew(r) == r.id \notin IdsOf(coll)
    IN  IF repeats \/ (clash /\ am = "reject")
        THEN [ok |-> FALSE, coll |-> coll]
        ELSE [ok |-> TRUE, coll |-> coll \o SelectSeq(recs, IsNew)]

\* collection.get(limit=1)["ids"]: the ids of at most one record.
ProbeIds(coll) == [i \in 1..Min(1, Len(coll)) |-> coll[i].id]

\* A count helper whose last fallback answers 1 instead of 0.
CollectionCount_LastResortOne(coll, cf, gf) ==
    IF ~cf THEN Len(coll)
    ELSE IF ~gf THEN (IF Len(ProbeIds(coll)) = 0 THEN 0 ELSE 1)
    ELSE 1

\* _collection_count / _safe_collection_count: count(), else a probe of at most one
\* record (0 or 1), else 0.
CollectionCount(coll, cf, gf) ==
    IF ~cf THEN Len(coll)
    ELSE IF ~gf THEN (IF Len(ProbeIds(coll)) = 0 THEN 0 ELSE 1)
    ELSE 0

\* A sufficiency test that wants strictly more than min_required.
SkipIngestion_Strict(existing, min_required, force_recreate) ==
    existing > min_required /\ ~force_recreate

\* `if existing >= min_required and not force_recreate: return existing`
SkipIngestion(existing, min_required, force_recreate) ==
    existing >= min_required /\ ~force_recreate

\* One batch: the ids each script gives its items, the add, and (agents/rag_vectordb.py
\* only) the second add under namespaced ids when the first one raised.  `calls` lists
\* the collection.add calls made: what was handed over and whether it was accepted.
AddBatch(variant, coll, batch, base, am) ==
    LET n == Len(batch)
        docs == [j \in 1..n |-> DocumentOf(variant, batch[j])]
        encodable == \A j \in 1..n : docs[j] # <<>>
        seqIds == [j \in 1..n |-> DocId(base + (j - 1))]
        ids == IF variant = "rag" THEN seqIds
               ELSE [j \in 1..n |-> IF ItemId(batch[j]) # <<>>
                                    THEN DocId(ItemId(batch[j])[1])
                                    ELSE seqIds[j]]
        recs == [j \in 1..n |-> Record(ids[j], docs[j][1], batch[j])]
        retry == [j \in 1..n |-> Record(RepoDocId(base + (j - 1)), docs[j][1], batch[j])]
        first == StoreAdd(coll, recs, am)
        second == StoreAdd(coll, retry, am)
    IN  IF ~encodable THEN [ok |-> FALSE, coll |-> coll, calls |-> <<>>]
        ELSE IF first.ok \/ variant = "rag"
        THEN [ok |-> first.ok, coll |-> first.coll,
              calls |-> <<[base |-> base, batch |-> batch, recs |-> recs, ok |-> first.ok]>>]
        ELSE [ok |-> second.ok, coll |-> second.coll,
              calls |-> <<[base |-> base, batch |-> batch, recs |-> recs, ok |-> FALSE],
                          [base |-> base, batch |-> batch, recs |-> retry,
                           ok |-> second.ok]>>]

\* The batch loop: batches of batch_size in order, stopping at the first that raises.
RECURSIVE IngestFrom(_, _, _, _, _, _, _)
IngestFrom(variant, coll, train, b, id_start, batch_size, am) ==
    LET i == b * batch_size
    IN  IF i >= Len(train) THEN [ok |-> TRUE, coll |-> coll, calls |-> <<>>]
        ELSE LET batch == SubSeq(train, i + 1, Min(i + batch_size, Len(train)))
                 r == AddBatch(variant, coll, batch, id_start + i, am)
                 rest == IngestFrom(variant, r.coll, train, b + 1, id_start, batch_size, am)
             IN  IF r.ok
                 THEN [ok |-> rest.ok, coll |-> rest.coll, calls |-> r.calls \o rest.calls]
                 ELSE r

\* An opening that never deletes: force_recreate is not looked at.
OpenCollection_NoDelete(coll, pres, force_recreate) ==
    [coll |-> coll, delete_raised |-> FALSE]

\* `if force_recreate: try: client.delete_collection(name) except Exception: pass`,
\* then get_or_create_collection(name): delete_collection raises when the collection
\* does not exist, and the exception is dropped; the collection opened is empty.
OpenCollection(coll, pres, force_recreate) ==
    IF force_recreate
    THEN [coll |-> <<>>, delete_raised |-> ~pres]
    ELSE [coll |-> coll, delete_raised |-> FALSE]

\* build_products_vectordb of either script on collection coll (pres: it exists).
BuildProductsVectordb(variant, coll, pres, cf, gf, am, dataset, min_required, force_recreate, max_items, batch_size) ==
    LET opened == OpenCollection(coll, pres, force_recreate)
        start == opened.coll
        existing == CollectionCount(start, cf, gf)
    IN  IF SkipIngestion(existing, min_required, force_recreate)
        THEN [ok |-> TRUE, collection |-> start, ret |-> existing, calls |-> <<>>,
              delete_raised |-> opened.delete_raised, existing |-> existing,
              skipped |-> TRUE]
        ELSE LET train == IF max_items = <<>> THEN TrainOf(dataset)
                          ELSE PySliceTo(TrainOf(dataset), max_items[1])
                 id_start == IF force_recreate THEN 0 ELSE Max(existing, 0)
                 done == IngestFrom(variant, start, train, 0, id_start, batch_size, am)
             IN  [ok |-> done.ok, collection |-> done.coll, calls |-> done.calls,
                  delete_raised |-> opened.delete_raised, existing |-> existing,
                  skipped |-> FALSE,
                  ret |-> IF done.ok THEN CollectionCount(done.coll, cf, gf) ELSE 0]

\* _MIN_SAMPLES_FOR_TSNE, the default min_required.
MinSamplesForTsne == 31

\* The default batch_size.
DefaultBatchSize == 1000

MinRequiredChoices == {1, 3, MinSamplesForTsne}

BatchSizes == {2, DefaultBatchSize}

MaxItemsChoices == {<<>>}

\* One call of build_products_vectordb.
Ingest(variant, dataset, min_required, force_recreate, max_items, batch_size) ==
    /\ ingests < MaxIngests
    /\ \E r \in {BuildProductsVectordb(variant, collection, present, countFails, getFails,
                                       addMode, dataset, min_required, force_recreate,
                                       max_items, batch_size)} :
           /\ collection' = r.collection
           /\ present' = TRUE
           /\ ingestLast' = [op |-> "build", variant |-> variant, dataset |-> dataset,
                             min_required |-> min_required,
                             force_recreate |-> force_recreate,
                             batch_size |-> batch_size, before |-> collection,
                             ok |-> r.ok, ret |-> r.ret, calls |-> r.calls,
                             delete_raised |-> r.delete_raised, existing |-> r.existing,
                             skipped |-> r.skipped]
    /\ ingests' = ingests + 1
    /\ forced' = (forced \/ force_recreate)
    /\ UNCHANGED <<countFails, getFails, addMode, memVars, auxVars>>

InitIngest ==
    /\ IdleMem
    /\ IdleAux
    /\ collection = <<>>
    /\ present = FALSE
    /\ countFails \in BOOLEAN
    /\ getFails \in BOOLEAN
    /\ getFails => countFails
    /\ addMode \in {"reject", "ignore"}
    /\ ingests = 0
    /\ forced = FALSE
    /\ ingestLast = [op |-> "none"]

NextIngest ==
    \E variant \in Variants, dataset \in DatasetNames, min_required \in MinRequiredChoices,
       force_recreate \in BOOLEAN, max_items \in MaxItemsChoices, batch_size \in BatchSizes :
        Ingest(variant, dataset, min_required, force_recreate, max_items, batch_size)

SpecIngest == InitIngest /\ [][NextIngest]_vars

\* Items as the hub may deliver them: summary and full text each missing, blank or
\* present.
DocItems ==
    {<<h[1], h[2], h[3], full, <<>>, summary, <<>>, <<>>>> :
        h \in {<<"Kettle", "Appliances", 30>>, <<"Amp", "Musical_Instruments", 150>>},
        full \in {<<>>, <<" ">>, <<"f1">>},
        summary \in {<<>>, <<"">>, <<"  ">>, <<"s1">>}}

\* One batch of one item goes through the batch body of either script.
IngestItem(variant, item) ==
    /\ ingests < MaxIngests
    /\ \E r \in {AddBatch(variant, collection, <<item>>, Len(collection), addMode)} :
           /\ collection' = r.coll
           /\ ingestLast' = [op |-> "add_batch", variant |-> variant, ok |-> r.ok,
                             calls |-> r.calls]
    /\ present' = TRUE
    /\ ingests' = ingests + 1
    /\ UNCHANGED <<countFails, getFails, addMode, forced, memVars, auxVars>>

InitDocs ==
    /\ IdleMem
    /\ IdleIng
    /\ IdleAux

NextDocs == \E variant \in Variants, item \in DocItems : IngestItem(variant, item)

SpecDocs == InitDocs /\ [][NextDocs]_vars

\* ----------------------------------------------------- claims: ingestion

\* Two records of the collection hold the same item (same document and metadata).
StoredTwice(coll) ==
    \E i, j \in 1..Len(coll) :
        /\ i < j
        /\ coll[i].document = coll[j].document
        /\ coll[i].metadata = coll[j].metadata

UniqueIds(coll) == \A i, j \in 1..Len(coll) : coll[i].id = coll[j].id => i = j

\* What the count helper reports for a collection, spelled out case by case.
ReportedCount(coll) ==
    CASE ~countFails -> Len(coll)
      [] countFails /\ ~getFails /\ Len(coll) > 0 -> 1
      [] OTHER -> 0

\* C5 as claimed: without force_recreate, a collection that holds at least
\* min_required records is left as it is and its current count is returned.
C5_NoOpWhenHoldingEnough ==
    (/\ ingestLast.op = "build"
     /\ ~ingestLast.force_recreate
     /\ Len(ingestLast.before) >= ingestLast.min_required) =>
        /\ ingestLast.ok
        /\ collection = ingestLast.before
        /\ ingestLast.ret = Len(collection)

\* C5 amended: without force_recreate, when the count the helper reports (the exact
\* count if count() answers, else 1 for a non-empty and 0 for an empty or unreadable
\* store) is at least min_required, nothing is added or removed and that reported
\* count is returned; it is the current count whenever count() answers.
C5_NoOpWhenCountSuffices ==
    (/\ ingestLast.op = "build"
     /\ ~ingestLast.force_recreate
     /\ ReportedCount(ingestLast.before) >= ingestLast.min_required) =>
        /\ ingestLast.ok
        /\ collection = ingestLast.before
        /\ ingestLast.ret = ReportedCount(ingestLast.before)
        /\ ~countFails => ingestLast.ret = Len(collection)

\* C5 witness: a second ingestion found exactly min_required = 3 records and left them.
C5_Witness ==
    /\ ingestLast.op = "build"
    /\ ~ingestLast.force_recreate
    /\ ~countFails
    /\ ingestLast.min_required = 3
    /\ Len(ingestLast.before) = 3
    /\ collection = ingestLast.before
    /\ ingestLast.ret = 3

\* C6: as long as no ingestion used force_recreate, ids are unique, an ingestion
\* leaves every record it found in place, and no item is stored more than once.
C6_NoDuplicateNoOverwrite ==
    ~forced =>
        /\ UniqueIds(collection)
        /\ ~StoredTwice(collection)
        /\ ingestLast.op = "build" =>
            /\ Len(collection) >= Len(ingestLast.before)
            /\ \A i \in 1..Len(ingestLast.before) : collection[i] = ingestLast.before[i]

\* Whether two add calls hand over the same documents, embeddings and metadata.
SameBatch(a, b) ==
    /\ Len(a.recs) = Len(b.recs)
    /\ \A j \in 1..Len(a.recs) :
        /\ a.recs[j].document = b.recs[j].document
        /\ a.recs[j].embedding = b.recs[j].embedding
        /\ a.recs[j].metadata = b.recs[j].metadata

\* Whether every id of an add call carries the repository's name.
Namespaced(c) == \A j \in 1..Len(c.recs) : c.recs[j].id = RepoDocId(c.base + (j - 1))

\* C13: when the store rejects a batch insert because of an id collision, the same
\* batch (documents, embeddings, metadata) is retried exactly once under ids
\* namespaced by the repository's name instead of failing the ingestion; the
\* ingestion fails only if that retry is rejected too.
C13_RetryOnceNamespaced ==
    ingestLast.op = "build" =>
        LET calls == ingestLast.calls
        IN  /\ \A k \in 1..Len(calls) :
                (~Namespaced(calls[k]) /\ ~calls[k].ok) =>
                    /\ k + 1 <= Len(calls)
                    /\ Namespaced(calls[k + 1])
                    /\ SameBatch(calls[k], calls[k + 1])
                    /\ calls[k + 1].ok \/ (k + 1 = Len(calls) /\ ~ingestLast.ok)
            /\ \A k \in 1..Len(calls) :
                Namespaced(calls[k]) =>
                    k > 1 /\ ~Namespaced(calls[k - 1]) /\ ~calls[k - 1].ok
            /\ (calls # <<>> /\ calls[Len(calls)].ok) => ingestLast.ok

\* The records of the accepted add calls, in the order they were handed over.
RECURSIVE AcceptedRecs(_)
AcceptedRecs(calls) ==
    IF calls = <<>> THEN <<>>
    ELSE (IF Head(calls).ok THEN Head(calls).recs ELSE <<>>) \o AcceptedRecs(Tail(calls))

\* C14: with force_recreate the collection is deleted and rebuilt from empty: after
\* a successful forced ingestion it holds exactly the records that ingestion
\* inserted, whatever it held before, and a delete that raised because the
\* collection did not exist has not stopped the ingestion.
C14_ForcedRebuildFromEmpty ==
    (ingestLast.op = "build" /\ ingestLast.force_recreate) =>
        /\ ingestLast.delete_raised <=> (ingests = 1)
        /\ ingestLast.ok =>
            /\ ingestLast.calls # <<>>
            /\ collection = AcceptedRecs(ingestLast.calls)
            /\ Len(collection) = Len(TrainOf(ingestLast.dataset))

\* C14 witness: a forced ingestion succeeded on a collection that held records of
\* another dataset, none of which is left.
C14_Witness ==
    /\ ingestLast.op = "build"
    /\ ingestLast.force_recreate
    /\ ingestLast.ok
    /\ Len(ingestLast.before) >= 3
    /\ \A i \in 1..Len(ingestLast.before) : \A j \in 1..Len(collection) :
        ingestLast.before[i].document # collection[j].document
    /\ Len(collection) = 3

\* C17: appending items without an external id (no force_recreate, collection below
\* min_required): the sequential ids doc_<k> start at the number of records the
\* collection held, none equals an id already stored, and no two items of the
\* ingestion get the same one, whatever the batch size, the stored content and the
\* way the count was obtained.
C17_SequentialIdsNeverCollide ==
    (/\ ingestLast.op = "build"
     /\ ~ingestLast.force_recreate
     /\ ingestLast.calls # <<>>
     /\ ingestLast.variant = "rag" \/ ingestLast.dataset = "lite") =>
        LET calls == ingestLast.calls
            Firsts == {k \in 1..Len(calls) : ~Namespaced(calls[k])}
        IN  /\ calls[1].recs[1].id = DocId(Len(ingestLast.before))
            /\ \A k \in Firsts : \A j \in 1..Len(calls[k].recs) :
                /\ calls[k].recs[j].id \notin IdsOf(ingestLast.before)
                /\ \A m \in Firsts : \A n \in 1..Len(calls[m].recs) :
                    (calls[m].recs[n].id = calls[k].recs[j].id) => (m = k /\ n = j)

\* The collection as build_products_vectordb opened it in the latest ingestion.
OpenedLast == IF ingestLast.force_recreate THEN <<>> ELSE ingestLast.before

\* C18: the count helper never raises: it returns the exact count when count()
\* succeeds; when count() fails, 0 if a probe of at most one record brings nothing
\* back and 1 otherwise; when the probe fails too, 0, and the ingestion goes on as
\* for an empty store instead of ending there.
C18_LayeredCountFallback ==
    ingestLast.op = "build" =>
        /\ ~countFails => ingestLast.existing = Len(OpenedLast)
        /\ (countFails /\ ~getFails /\ OpenedLast = <<>>) => ingestLast.existing = 0
        /\ (countFails /\ ~getFails /\ OpenedLast # <<>>) => ingestLast.existing = 1
        /\ (countFails /\ getFails) =>
            /\ ingestLast.existing = 0
            /\ ingestLast.skipped <=>
                   (ingestLast.min_required <= 0 /\ ~ingestLast.force_recreate)
        /\ ingestLast.skipped =>
            (ingestLast.ok /\ ingestLast.existing >= ingestLast.min_required)

\* C18 witness: neither count() nor the probe could be read on a store holding
\* records, and the ingestion went on to add its batches.
C18_Witness ==
    /\ ingestLast.op = "build"
    /\ countFails
    /\ getFails
    /\ ~ingestLast.force_recreate
    /\ Len(ingestLast.before) >= 3
    /\ ingestLast.existing = 0
    /\ ingestLast.calls # <<>>

\* The text the selection rule names for an item: the summary when present and not
\* blank, else the full text when present and not blank, else "title (category)".
RuleDocument(item) ==
    CASE item[6] # <<>> /\ item[6][1] \notin {"", " ", "  "} -> item[6][1]
      [] item[4] # <<>> /\ item[4][1] \notin {"", " ", "  "} -> item[4][1]
      [] OTHER -> (IF item[1] = "Kettle" THEN "Kettle (Appliances)"
                   ELSE "Amp (Musical_Instruments)")

\* C20: for every ingested item the document embedded and stored is the one the
\* rule names (summary, else full text, else "title (category)") and is therefore
\* never blank, in both ingestion scripts.
C20_DocumentSelectionRule ==
    ingestLast.op = "add_batch" =>
        \A k \in 1..Len(ingestLast.calls) : \A j \in 1..Len(ingestLast.calls[k].recs) :
            LET rec == ingestLast.calls[k].recs[j]
            IN  /\ rec.document = RuleDocument(ingestLast.calls[k].batch[j])
                /\ rec.document \notin {"", " ", "  "}
                /\ rec.embedding = Embed(RuleDocument(ingestLast.calls[k].batch[j]))

\* ------------------------------------------------------------ visualization

\* Largest collection handed to the projector.
MaxVizRecords == 33

\* config/constants.py
Categories ==
    <<"Appliances", "Automotive", "Cell_Phones_and_Accessories", "Electronics",
      "Musical_Instruments", "Office_Products", "Tools_and_Home_Improvement",
      "Toys_and_Games">>

Colors == <<"red", "blue", "brown", "orange", "yellow", "green", "purple", "cyan">>

\* color_map.get(cat, "gray") with color_map = {cat: COLORS[i % len(COLORS)]}
ColorOf(cat) ==
    IF \E i \in 1..Len(Categories) : Categories[i] = cat
    THEN LET i == CHOOSE i \in 1..Len(Categories) : Categories[i] = cat
         IN  Colors[((i - 1) % Len(Colors)) + 1]
    ELSE "gray"

\* The i-th record of a populated store: its own document and embedding, the known
\* categories in turn and then one the palette does not know.
VizRecord(i) ==
    [id |-> DocId(i - 1), document |-> <<"summary", i>>, embedding |-> 100 + i,
     metadata |-> [category |-> IF i % 9 = 0 THEN "Books" ELSE Categories[i % 9],
                   price |-> 10 * i]]

VizStore(k) == [i \in 1..k |-> VizRecord(i)]

\* collection.get(include=[...], limit=max_datapoints): the first records, in order.
GetRecords(coll, limit) == SubSeq(coll, 1, Min(limit, Len(coll)))

\* _empty_plot_tuple(): no documents, a 0 x 3 matrix, no colors.
EmptyPlot ==
    [ok |-> TRUE, projected |-> FALSE, documents |-> <<>>,
     vectors |-> [shape |-> <<0, 3>>, rows |-> <<>>], colors |-> <<>>]

\* TSNE's default perplexity; fit_transform needs more samples than that.
Perplexity == 30

\* TSNE(n_components=3, random_state=42).fit_transform: it raises unless there are
\* more samples than the perplexity; row i of the result is the image of input row i
\* (the numbers themselves are not modelled).
Tsne(vectors) ==
    IF Len(vectors) <= Perplexity THEN [ok |-> FALSE, shape |-> <<0, 3>>, rows |-> <<>>]
    ELSE [ok |-> TRUE, shape |-> <<Len(vectors), 3>>,
          rows |-> [i \in 1..Len(vectors) |-> <<vectors[i], Len(vectors), 42>>]]

\* A gate that also turns away exactly min_samples records.
BelowGate_Inclusive(n, min_samples) == n = 0 \/ n <= min_samples

\* `vectors.size == 0 or vectors.shape[0] < min_samples`
BelowGate(n, min_samples) == n = 0 \/ n < min_samples

\* compute_tsne_plot_data(collection, max_datapoints, min_samples)
ComputeTsnePlotData(coll, max_datapoints, min_samples) ==
    LET result == GetRecords(coll, max_datapoints)
        n == Len(result)
        vectors == [i \in 1..n |-> result[i].embedding]
    IN  IF BelowGate(n, min_samples) THEN EmptyPlot
        ELSE LET documents == [i \in 1..n |-> result[i].document]
                 colors == [i \in 1..n |-> ColorOf(result[i].metadata.category)]
                 reduced == Tsne(vectors)
             IN  IF reduced.ok
                 THEN [ok |-> TRUE, projected |-> TRUE, documents |-> documents,
                       vectors |-> [shape |-> reduced.shape, rows |-> reduced.rows],
                       colors |-> colors]
                 ELSE [ok |-> FALSE, projected |-> TRUE, documents |-> <<>>,
                       vectors |-> [shape |-> <<0, 3>>, rows |-> <<>>], colors |-> <<>>]

\* The default max_datapoints.
DefaultMaxDatapoints == 2000

MaxDatapointsChoices == {31, DefaultMaxDatapoints}

MinSamplesChoices == {0, 5, MinSamplesForTsne, 32}

\* One call of compute_tsne_plot_data (get_plot_data passes min_samples = 31).
Plot(max_datapoints, min_samples) ==
    /\ plotLast' = [op |-> "plot", max_datapoints |-> max_datapoints,
                    min_samples |-> min_samples,
                    out |-> ComputeTsnePlotData(collection, max_datapoints, min_samples)]
    /\ UNCHANGED <<memVars, ingVars, queryLast, specialistOf, frontierOf, priceLast>>

InitViz ==
    /\ IdleMem
    /\ IdleAux
    /\ collection \in {VizStore(k) : k \in 0..MaxVizRecords}
    /\ present = TRUE
    /\ countFails = FALSE
    /\ getFails = FALSE
    /\ addMode = "reject"
    /\ ingests = 0
    /\ forced = FALSE
    /\ ingestLast = [op |-> "none"]

NextViz ==
    \E max_datapoints \in MaxDatapointsChoices, min_samples \in MinSamplesChoices :
        Plot(max_datapoints, min_samples)

SpecViz == InitViz /\ [][NextViz]_vars

\* -------------------------------------------------- claims: visualization

\* The palette, written out.
ExpectedColor(cat) ==
    CASE cat = "Appliances" -> "red"
      [] cat = "Automotive" -> "blue"
      [] cat = "Cell_Phones_and_Accessories" -> "brown"
      [] cat = "Electronics" -> "orange"
      [] cat = "Musical_Instruments" -> "yellow"
      [] cat = "Office_Products" -> "green"
      [] cat = "Tools_and_Home_Improvement" -> "purple"
      [] cat = "Toys_and_Games" -> "cyan"
      [] OTHER -> "gray"

\* The number of records the latest plot read.
PlotRead == IF Len(collection) <= plotLast.max_datapoints
            THEN Len(collection) ELSE plotLast.max_datapoints

IsEmptyPlot(out) ==
    /\ out.ok
    /\ ~out.projected
    /\ out.documents = <<>>
    /\ out.vectors.shape = <<0, 3>>
    /\ out.vectors.rows = <<>>
    /\ out.colors = <<>>

\* k documents, a k x 3 matrix and k colors, entry i belonging to the i-th record read.
IsAlignedPlot(out, k) ==
    /\ out.ok
    /\ out.projected
    /\ Len(out.documents) = k
    /\ out.vectors.shape = <<k, 3>>
    /\ Len(out.vectors.rows) = k
    /\ Len(out.colors) = k
    /\ \A i \in 1..k :
        /\ out.documents[i] = collection[i].document
        /\ Len(out.vectors.rows[i]) = 3
        /\ out.vectors.rows[i][1] = collection[i].embedding
        /\ out.colors[i] = ExpectedColor(collection[i].metadata.category)

\* C7 as claimed: for any min_samples m and k records read, k = 0 or k < m gives the
\* empty result without projecting, and k >= m gives k aligned documents, rows, colors.
C7_GateForAnyMinSamples ==
    plotLast.op = "plot" =>
        IF PlotRead = 0 \/ PlotRead < plotLast.min_samples
        THEN IsEmptyPlot(plotLast.out)
        ELSE IsAlignedPlot(plotLast.out, PlotRead)

\* C7 amended: k = 0 or k < m gives the empty result without projecting; k >= m with
\* k > 30 (the projection's perplexity) gives k aligned documents, rows and colors;
\* 0 < k <= 30 with k >= m makes the projection raise.  With m = 31, 30 records are
\* empty and 31 give 31 rows.
C7_GateThenProject ==
    plotLast.op = "plot" =>
        IF PlotRead = 0 \/ PlotRead < plotLast.min_samples
        THEN IsEmptyPlot(plotLast.out)
        ELSE IF PlotRead > 30
             THEN IsAlignedPlot(plotLast.out, PlotRead)
             ELSE ~plotLast.out.ok

\* C7 witness: 31 records against min_samples = 31 give a 31 x 3 matrix.
C7_Witness ==
    /\ plotLast.op = "plot"
    /\ Len(collection) = 31
    /\ plotLast.min_samples = 31
    /\ plotLast.out.ok
    /\ plotLast.out.vectors.shape = <<31, 3>>
    /\ Len(plotLast.out.colors) = 31

\* ---------------------------------------------------------------- retriever

\* Largest collection queried.
MaxRetr == 3

\* Largest n_results asked for, beside the default.
MaxResults == 3

\* The default n_results.
DefaultNResults == 5

NResultsChoices == 1..MaxResults \cup {DefaultNResults}

Descriptions == {"a kettle", "an amplifier"}

\* What the collection may hold: two records share a document and differ in price.
RetrItems ==
    { <<"s1", "Appliances", 30>>, <<"s1", "Appliances", 35>>,
      <<"s3", "Electronics", 200>>, <<"s4", "Musical_Instruments", 150>> }

RetrRecord(k, it) ==
    [id |-> DocId(k), document |-> it[1], embedding |-> Embed(it[1]),
     metadata |-> [category |-> it[2], price |-> it[3]]]

\* Distance between two (one-dimensional) vectors.
Distance(u, v) == IF u >= v THEN u - v ELSE v - u

\* The positions of coll in the order the index returns them: nearest to q first,
\* equal distances in insertion order.
RECURSIVE NearestFirst(_, _, _)
NearestFirst(coll, left, q) ==
    IF left = {} THEN <<>>
    ELSE LET best == CHOOSE i \in left :
                 \A j \in left :
                     \/ Distance(coll[i].embedding, q) < Distance(coll[j].embedding, q)
                     \/ /\ Distance(coll[i].embedding, q) = Distance(coll[j].embedding, q)
                        /\ i <= j
         IN  <<best>> \o NearestFirst(coll, left \ {best}, q)

\* collection.query(query_embeddings=[q], n_results=n): for the one query, the ids,
\* documents and metadatas of the n nearest records (fewer when fewer are stored).
IndexQuery(coll, q, n) ==
    LET order == SubSeq(NearestFirst(coll, 1..Len(coll), q), 1, Min(n, Len(coll)))
    IN  [ids |-> << [i \in 1..Len(order) |-> coll[order[i]].id] >>,
         documents |-> << [i \in 1..Len(order) |-> coll[order[i]].document] >>,
         metadatas |-> << [i \in 1..Len(order) |-> coll[order[i]].metadata] >>]

\* The documents of a list without the later repetitions.
RECURSIVE Dedup(_)
Dedup(docs) ==
    IF docs = <<>> THEN <<>>
    ELSE LET front == Dedup(SubSeq(docs, 1, Len(docs) - 1))
             d == docs[Len(docs)]
         IN  IF \E i \in 1..Len(front) : front[i] = d THEN front ELSE Append(front, d)

\* A retriever that drops repeated documents and keeps every price.
QuerySimilars_Dedup(results) ==
    [documents |-> Dedup(results.documents[1]),
     prices |-> [i \in 1..Len(results.metadatas[1]) |-> results.metadatas[1][i].price]]

\* query_similars after the query: results["documents"][0][:] and the price of each
\* entry of results["metadatas"][0].
QuerySimilars(results) ==
    [documents |-> results.documents[1],
     prices |-> [i \in 1..Len(results.metadatas[1]) |-> results.metadatas[1][i].price]]

\* One call of ChromaRetriever.query_similars(description, n_results).
Query(description, n_results) ==
    /\ LET results == IndexQuery(collection, Embed(description), n_results)
       IN  queryLast' = [op |-> "query", description |-> description,
                         n_results |-> n_results, results |-> results,
                         out |-> QuerySimilars(results)]
    /\ UNCHANGED <<memVars, ingVars, plotLast, specialistOf, frontierOf, priceLast>>

\* The collection grows by one record between queries (an ingestion elsewhere).
RetrAdd(it) ==
    /\ Len(collection) < MaxRetr
    /\ collection' = Append(collection, RetrRecord(Len(collection), it))
    /\ present' = TRUE
    /\ queryLast' = [op |-> "none"]
    /\ UNCHANGED <<memVars, countFails, getFails, addMode, ingests, forced, ingestLast,
                   plotLast, specialistOf, frontierOf, priceLast>>

InitRetr ==
    /\ IdleMem
    /\ IdleIng
    /\ IdleAux

NextRetr ==
    \/ \E it \in RetrItems : RetrAdd(it)
    \/ \E description \in Descriptions, n_results \in NResultsChoices :
        Query(description, n_results)

SpecRetr == InitRetr /\ [][NextRetr]_vars

\* ------------------------------------------------------ claims: retriever

\* The stored record with the given id.
RecordWithId(id) == CHOOSE r \in {collection[i] : i \in 1..Len(collection)} : r.id = id

\* C8: query_similars returns documents and prices of equal length, at most n_results
\* of them, prices[i] being the price stored with documents[i], in exactly the order
\* and number the index answered (nearest first, repeated documents kept).
C8_RetrievalAligned ==
    queryLast.op = "query" =>
        LET out == queryLast.out
            ids == queryLast.results.ids[1]
            q == Embed(queryLast.description)
        IN  /\ Len(out.documents) = Len(out.prices)
            /\ Len(out.documents) <= queryLast.n_results
            /\ Len(out.documents) = Len(ids)
            /\ Len(ids) = (IF queryLast.n_results <= Len(collection)
                           THEN queryLast.n_results ELSE Len(collection))
            /\ \A i, j \in 1..Len(ids) : ids[i] = ids[j] => i = j
            /\ \A i \in 1..Len(ids) :
                /\ out.documents[i] = RecordWithId(ids[i]).document
                /\ out.prices[i] = RecordWithId(ids[i]).metadata.price
            /\ \A i \in 1..(Len(ids) - 1) :
                Distance(RecordWithId(ids[i]).embedding, q)
                    <= Distance(RecordWithId(ids[i + 1]).embedding, q)

\* C8 witness: a query cut to n_results that returned one document twice, with the
\* two prices stored for it.
C8_Witness ==
    /\ queryLast.op = "query"
    /\ queryLast.n_results < Len(collection)
    /\ Len(queryLast.out.documents) = queryLast.n_results
    /\ \E i, j \in 1..Len(queryLast.out.documents) :
        /\ i # j
        /\ queryLast.out.documents[i] = queryLast.out.documents[j]
        /\ queryLast.out.prices[i] # queryLast.out.prices[j]

\* ----------------------------------------------------------------- ensemble

\* The descriptions priced, and what the estimators may answer.
EnsDescriptions == {"a kettle", "an amplifier"}

EstimateValues == {50, 100}

\* Preprocessor.preprocess: the rewrite of a description (an external model's text).
Preprocess(description) ==
    IF description = "a kettle" THEN "Title: Kettle" ELSE "Title: Amplifier"

EnsTexts == EnsDescriptions \cup {Preprocess(d) : d \in EnsDescriptions}

\* The weights of `frontier * 0.8 + specialist * 0.2`, in tenths.
WeightFrontier == 8

WeightSpecialist == 2

WeightScale == 10

\* An ensemble that prices the raw description instead of its rewrite.
EnsemblePrice_OnRawDescription(description, specialist_price, frontier_price) ==
    LET specialist == specialist_price[description]
        frontier == frontier_price[description]
    IN  [num |-> frontier * WeightFrontier + specialist * WeightSpecialist,
         den |-> WeightScale]

\* EnsembleAgent.price: both estimators price the rewrite; the result is the exact
\* decimal num / den.
EnsemblePrice(description, specialist_price, frontier_price) ==
    LET rewrite == Preprocess(description)
        specialist == specialist_price[rewrite]
        frontier == frontier_price[rewrite]
    IN  [num |-> frontier * WeightFrontier + specialist * WeightSpecialist,
         den |-> WeightScale]

\* One call of EnsembleAgent.price(description).
Price(description) ==
    /\ priceLast' = [op |-> "price", description |-> description,
                     out |-> EnsemblePrice(description, specialistOf, frontierOf)]
    /\ UNCHANGED <<memVars, ingVars, plotLast, queryLast, specialistOf, frontierOf>>

InitEns ==
    /\ IdleMem
    /\ IdleIng
    /\ plotLast = [op |-> "none"]
    /\ queryLast = [op |-> "none"]
    /\ specialistOf \in [EnsTexts -> EstimateValues]
    /\ frontierOf \in [EnsTexts -> EstimateValues]
    /\ priceLast = [op |-> "none"]

NextEns == \E description \in EnsDescriptions : Price(description)

SpecEns == InitEns /\ [][NextEns]_vars

\* ------------------------------------------------------- claims: ensemble

\* C9: price() returns exactly 0.8 * frontier + 0.2 * specialist, both estimates taken
\* on the rewrite of the description; frontier = 100 and specialist = 50 give 90.
C9_EnsembleWeights ==
    priceLast.op = "price" =>
        LET rewrite == Preprocess(priceLast.description)
            out == priceLast.out
        IN  /\ out.den > 0
            /\ 5 * out.num = out.den * (4 * frontierOf[rewrite] + specialistOf[rewrite])
            /\ (frontierOf[rewrite] = 100 /\ specialistOf[rewrite] = 50) =>
                out.num = 90 * out.den

\* C9 witness: frontier 100 and specialist 50 on the rewrite (and other answers on
\* the raw description) priced at 90.
C9_Witness ==
    /\ priceLast.op = "price"
    /\ frontierOf[Preprocess(priceLast.description)] = 100
    /\ specialistOf[Preprocess(priceLast.description)] = 50
    /\ frontierOf[priceLast.description] = 50
    /\ specialistOf[priceLast.description] = 100
    /\ priceLast.out.num = 90 * priceLast.out.den

====
